---- MODULE Spec2Model ----
(***************************************************************************)
(* proxy-find (src/src/main.rs): the dispatcher loop of main, the probe    *)
(* tasks process_proxy / check_proxy, and the output file they share       *)
(* behind a tokio Mutex.                                                   *)
(*                                                                         *)
(* Time is the dispatcher thread's clock in milliseconds.  thread_sleep    *)
(* sleeps at least the duration asked for; the model takes the shortest    *)
(* sleep the call allows, the worst case for every lower bound on a gap    *)
(* between launches or on a wait.  Probe tasks run on the worker threads   *)
(* of the runtime; every await of process_proxy is a step that interleaves *)
(* freely with the dispatcher and with the other tasks, so a task may be   *)
(* arbitrarily slow relative to the dispatcher's clock.                    *)
(*                                                                         *)
(* The worker pool size (--cores) is not a variable: a step of the model   *)
(* is one poll of one task by some worker, and every interleaving of the   *)
(* polls is explored, which covers any pool of one or more workers.        *)
(* One write_all call is one step: it appends its whole buffer or fails    *)
(* and appends nothing.                                                    *)
(***************************************************************************)
EXTENDS Integers, Sequences, FiniteSets

(* ------------------------------ bounds -------------------------------- *)

\* The longest input list explored.
MaxProxies == 3

\* The length of the input lists of the launch-cadence specification: one
\* more launch than the smallest --cps value that does not divide 1000.
CadenceLen == 4

\* The largest --timeout value explored, in seconds.
MaxTimeout == 10
\* Largest --cps and largest --timeout of the runs that sweep the
\* configuration.
MaxConfigCps == 1001
MaxConfigTimeout == 60

(* ------------------------- program constants -------------------------- *)

\* `delay: 1000 / cps`
MillisPerSecond == 1000

\* `.unwrap_or(30)`: the default --cps.
DefaultCps == 30

\* `.unwrap_or(5)`: the default --timeout, in seconds.
DefaultTimeout == 5

\* The f32 nearest to the literal 1.1 is F32Mant11 / 2^F32FracBits.
F32Mant11 == 9227469
F32FracBits == 23

\* The line terminator of `[&proxy, "\n"].concat()`.
NL == "\n"

(* ------------------------------ inputs -------------------------------- *)

\* The --cps values explored: 0 (division by zero), the smallest value that
\* does not divide 1000, the default, and a value above 1000.
CpsValues == {0, 3, DefaultCps, 1001}

TimeoutValues == {DefaultTimeout, MaxTimeout}

\* The lines an input file may hold: the empty line, which no client can be
\* bound to, and two proxy addresses.  BufReader::lines strips the line
\* terminators, so no address holds NL.
Addrs == {<< >>, <<"a">>, <<"b", "c">>}

RECURSIVE SeqsOfLen(_)
SeqsOfLen(n) ==
    IF n = 0 THEN {<< >>}
    ELSE {Append(s, a) : s \in SeqsOfLen(n - 1), a \in Addrs}

Inputs == UNION {SeqsOfLen(n) : n \in 0..MaxProxies}

CadenceInputs == SeqsOfLen(CadenceLen)

\* What the output path may hold before the run.
OldContents == {<< >>, <<"z", NL>>}

(* ------------------------------- state -------------------------------- *)

VARIABLES
    cps,          \* the --cps argument
    timeout,      \* cfg.timeout, in seconds
    input,        \* the lines of the input file
    disk,         \* the bytes of the file at the output path
    mainpc,       \* where main is
    delay,        \* cfg.delay, in milliseconds
    proxies,      \* the Vec load_list returned
    idx,          \* the position the dispatch loop has reached
    now,          \* the dispatcher's clock, in milliseconds
    launchT,      \* launchT[t]: the clock when task t was spawned (0 before)
    launchOrder,  \* the tasks in the order they were spawned
    drainT,       \* the clock when the final sleep began (0 before)
    pc,           \* pc[t]: where task t is
    probe,        \* probe[t]: what check_proxy returned to task t
    result,       \* result[t]: what process_proxy returned
    holder,       \* the task that holds the valid_file lock, 0 when free
    nProbe,       \* nProbe[t]: the calls of check_proxy by task t
    nSent,        \* nSent[t]: the requests task t has sent
    nRecord       \* nRecord[t]: the calls of write_all by task t

vars == <<cps, timeout, input, disk, mainpc, delay, proxies, idx, now, launchT,
          launchOrder, drainT, pc, probe, result, holder, nProbe, nSent, nRecord>>

cfgVars == <<cps, timeout, input>>
mainVars == <<mainpc, delay, proxies, idx, now, launchT, launchOrder, drainT>>
taskVars == <<pc, probe, result, holder, nProbe, nSent, nRecord>>

\* One task per line of the input; task t is the one spawned for proxies[t].
Tasks == 1..Len(input)

\* The state at the entry of main, but for the arguments and the files.
Entry ==
    /\ mainpc = "parse"
    /\ delay = 0
    /\ proxies = << >>
    /\ idx = 1
    /\ now = 0
    /\ launchT = [t \in Tasks |-> 0]
    /\ launchOrder = << >>
    /\ drainT = 0
    /\ pc = [t \in Tasks |-> "none"]
    /\ probe = [t \in Tasks |-> "none"]
    /\ result = [t \in Tasks |-> "none"]
    /\ holder = 0
    /\ nProbe = [t \in Tasks |-> 0]
    /\ nSent = [t \in Tasks |-> 0]
    /\ nRecord = [t \in Tasks |-> 0]

Init ==
    /\ cps \in CpsValues
    /\ timeout \in TimeoutValues
    /\ input \in Inputs
    /\ disk \in OldContents
    /\ Entry

\* Runs of CadenceLen launches at the --cps values that are no divisor of
\* 1000, with the default timeout.
InitCadence ==
    /\ cps \in {k \in CpsValues : k > 0 /\ MillisPerSecond % k # 0}
    /\ timeout = DefaultTimeout
    /\ input \in CadenceInputs
    /\ disk \in OldContents
    /\ Entry

\* The run of the configuration sweep: a well-formed address and a
\* malformed one.
ConfigInput == << <<"a">>, << >> >>

\* Runs over every --cps up to MaxConfigCps with the default timeout, and
\* over every --timeout up to MaxConfigTimeout with the highest --cps.
InitConfig ==
    /\ \/ cps \in 0..MaxConfigCps /\ timeout = DefaultTimeout
       \/ cps = MaxConfigCps /\ timeout \in 0..MaxConfigTimeout
    /\ input = ConfigInput
    /\ disk \in OldContents
    /\ Entry

(* ---------------------------- pure functions -------------------------- *)

RECURSIVE Pow2(_)
Pow2(n) == IF n = 0 THEN 1 ELSE 2 * Pow2(n - 1)

\* 1.0 as a numerator over 2^F32FracBits, and the first numerator that
\* does not fit the 24 significant bits of an f32.
F32One == Pow2(F32FracBits)
F32Top == 2 * F32One

\* The number of low bits an exact product n loses when it is rounded to
\* the 24 significant bits of an f32.
RECURSIVE F32Shift(_, _)
F32Shift(n, k) == IF n \div Pow2(k) < F32Top THEN k ELSE F32Shift(n, k + 1)

\* n / 2^F32FracBits rounded to the nearest f32 (ties to even), as a
\* numerator over 2^F32FracBits.
F32Round(n) ==
    LET k == F32Shift(n, 0)
        q == n \div Pow2(k)
        r == n % Pow2(k)
        up == /\ k > 0
              /\ \/ 2 * r > Pow2(k)
                 \/ 2 * r = Pow2(k) /\ q % 2 = 1
    IN  (IF up THEN q + 1 ELSE q) * Pow2(k)

\* A final sleep of nine tenths of the timeout.
DrainSecsShort(t) == (t * 9) \div 10

\* `(cfg.timeout as f32 * 1.1) as u64`: the f32 product, truncated.
DrainSecs(t) == F32Round(t * F32Mant11) \div F32One

\* The quotient rounded up instead of down.
DelayOfCeil(k) == (MillisPerSecond + k - 1) \div k

\* `delay: 1000 / cps`, a u64 division; it panics when cps is 0.
DelayOf(k) == MillisPerSecond \div k

\* A record without its line terminator.
RecordNoNewline(p) == p

\* `[&proxy, "\n"].concat()`
Record(p) == p \o <<NL>>

\* `Proxy::all(proxy)?`: the client layer rejects an address it cannot
\* read as a URL; the empty line is such an address.
Malformed(p) == p = << >>

\* A record for every probe that returned, whatever it returned.
ShouldRecordAlways(outcome) == TRUE

\* `if check_proxy(..).await? {`
ShouldRecord(outcome) == outcome = "true"

\* A lock that is granted to every caller at once.
LockAlwaysFree == TRUE

\* `valid_file.lock().await` returns once no task holds the lock.
LockFree == holder = 0

\* A loop that walks the list from its end.
NextToLaunchReversed == Len(proxies) + 1 - idx

\* `for (idx, proxy) in proxies.into_iter().enumerate()`
NextToLaunch == idx

\* A task whose probe failed is queued again.
AfterFailedProbeRetry == "spawned"

\* Lines 168-176: with the `if` not taken, process_proxy returns Ok(()).
AfterFailedProbe == "done"

\* The lines of a byte sequence: the runs between line terminators, and
\* the run after the last terminator when it is not empty.
RECURSIVE SplitLines(_, _)
SplitLines(bytes, cur) ==
    IF bytes = << >> THEN (IF cur = << >> THEN << >> ELSE <<cur>>)
    ELSE IF Head(bytes) = NL THEN <<cur>> \o SplitLines(Tail(bytes), << >>)
    ELSE SplitLines(Tail(bytes), Append(cur, Head(bytes)))

Lines(bytes) == SplitLines(bytes, << >>)

\* Whether every byte of the sequence belongs to a terminated line.
Terminated(bytes) == bytes = << >> \/ bytes[Len(bytes)] = NL

Range(s) == {s[i] : i \in DOMAIN s}

Count(s, x) == Cardinality({i \in DOMAIN s : s[i] = x})

(* ------------------------------- main --------------------------------- *)

\* Lines 73-90: the configuration.  `1000 / cps` panics on a zero divisor.
ParseConfig ==
    /\ mainpc = "parse"
    /\ IF cps = 0
       THEN /\ mainpc' = "panicked"
            /\ delay' = delay
       ELSE /\ mainpc' = "load"
            /\ delay' = DelayOf(cps)
    /\ UNCHANGED <<cfgVars, disk, proxies, idx, now, launchT, launchOrder, drainT, taskVars>>

\* Line 102: load_list read the input file.
LoadOk ==
    /\ mainpc = "load"
    /\ proxies' = input
    /\ mainpc' = "create"
    /\ UNCHANGED <<cfgVars, disk, delay, idx, now, launchT, launchOrder, drainT, taskVars>>

\* A main that takes an unreadable input file for an empty list.
LoadFailContinues == "create"

\* Line 102: `?` returns load_list's error from main.
LoadFailNext == "aborted"

\* Line 102: load_list failed and `?` returns the error from main.
LoadFail ==
    /\ mainpc = "load"
    /\ mainpc' = LoadFailNext
    /\ UNCHANGED <<cfgVars, disk, delay, proxies, idx, now, launchT, launchOrder, drainT, taskVars>>

\* A file opened without truncation keeps what it held.
CreatedContentKept == disk

\* Line 106: File::create opens the file write-only and truncates it.
CreatedContent == << >>

\* Lines 105-109: File::create truncates the output file; the loop over an
\* empty list ends at once.
CreateOk ==
    /\ mainpc = "create"
    /\ disk' = CreatedContent
    /\ mainpc' = IF Len(proxies) = 0 THEN "drain" ELSE "spawn"
    /\ UNCHANGED <<cfgVars, delay, proxies, idx, now, launchT, launchOrder, drainT, taskVars>>

\* Line 106: File::create failed and `?` returns the error from main.
CreateFail ==
    /\ mainpc = "create"
    /\ mainpc' = "aborted"
    /\ UNCHANGED <<cfgVars, disk, delay, proxies, idx, now, launchT, launchOrder, drainT, taskVars>>

\* A dispatcher that joins every task it launched before the next launch.
SpawnReadyAfterJoin == mainpc = "spawn" /\ \A t \in Tasks : pc[t] \in {"none", "done"}

\* Line 112: runtime.spawn hands the task to the runtime and returns; it
\* waits for no task.
SpawnReady == mainpc = "spawn"

\* Lines 110-116: one iteration of the loop up to the spawn.
Spawn ==
    /\ SpawnReady
    /\ LET t == NextToLaunch
       IN  /\ pc[t] = "none"
           /\ pc' = [pc EXCEPT ![t] = "spawned"]
           /\ launchT' = [launchT EXCEPT ![t] = now]
           /\ launchOrder' = Append(launchOrder, t)
    /\ mainpc' = "sleep"
    /\ UNCHANGED <<cfgVars, disk, delay, proxies, idx, now, drainT,
                   probe, result, holder, nProbe, nSent, nRecord>>

\* Lines 118-119: thread_sleep(cfg.delay), then the next iteration or the
\* end of the loop.
InterLaunchSleep ==
    /\ mainpc = "sleep"
    /\ now' = now + delay
    /\ idx' = idx + 1
    /\ mainpc' = IF idx + 1 > Len(proxies) THEN "drain" ELSE "spawn"
    /\ UNCHANGED <<cfgVars, disk, delay, proxies, launchT, launchOrder, drainT, taskVars>>

\* Line 125: the duration of the final sleep, in milliseconds.
DrainMillis == DrainSecs(timeout) * MillisPerSecond

\* A final wait that joins every launched task before it returns.
DrainReadyAfterJoin == mainpc = "drain" /\ \A t \in Tasks : pc[t] \in {"none", "done"}

\* Lines 121-125: after the loop main goes to its final sleep; nothing
\* there reads the state of a task.
DrainReady == mainpc = "drain"

\* Lines 121-127: the final sleep, then main returns Ok(()) and the
\* process ends with whatever tasks are left.
DrainAndExit ==
    /\ DrainReady
    /\ drainT' = now
    /\ now' = now + DrainMillis
    /\ mainpc' = "exited"
    /\ UNCHANGED <<cfgVars, disk, delay, proxies, idx, launchT, launchOrder, taskVars>>

(* ------------------------------- tasks -------------------------------- *)

\* A task makes a step only while the process lives.
Running == mainpc \in {"spawn", "sleep", "drain"}

\* A task that returns an error ends the run.
MainAbortOnTaskError == "aborted"

\* Lines 112-116: main drops the JoinHandle that runtime.spawn returns, so
\* the Err a task returns reaches nobody and main stays where it is.
MainAfterTaskError == mainpc

\* The main variables a step of a task never writes.
mainRest == <<delay, proxies, idx, now, launchT, launchOrder, drainT>>

\* A check_proxy that takes a client it cannot build for a failed probe.
RejectedResultSwallowed == "Ok"

\* Lines 135-136, 168: `?` returns the builder's error from check_proxy,
\* and `?` in process_proxy returns it again as ProcessProxyError::Reqwest.
RejectedResult == "ErrReqwest"

\* Lines 168, 133-138: the first poll of process_proxy.  check_proxy
\* builds the client; a rejected address returns Err through both `?`
\* before any request, any other address has its GET sent.
StartProbe(t) ==
    /\ Running
    /\ pc[t] = "spawned"
    /\ nProbe' = [nProbe EXCEPT ![t] = @ + 1]
    /\ IF Malformed(proxies[t])
       THEN /\ pc' = [pc EXCEPT ![t] = "done"]
            /\ probe' = [probe EXCEPT ![t] = "err"]
            /\ result' = [result EXCEPT ![t] = RejectedResult]
            /\ mainpc' = MainAfterTaskError
            /\ UNCHANGED nSent
       ELSE /\ pc' = [pc EXCEPT ![t] = "probing"]
            /\ nSent' = [nSent EXCEPT ![t] = @ + 1]
            /\ UNCHANGED <<probe, result, mainpc>>
    /\ UNCHANGED <<cfgVars, disk, mainRest, holder, nRecord>>

\* A probe that ends without success would also end every probe still in
\* flight.
PcAfterProbeCancelling(t, next) ==
    [u \in Tasks |-> IF u = t THEN next
                     ELSE IF next = "done" /\ pc[u] = "probing" THEN "done"
                     ELSE pc[u]]

\* Lines 163-177: a task holds only its own proxy, client and future; the
\* end of its probe moves that task alone.
PcAfterProbe(t, next) == [pc EXCEPT ![t] = next]

\* Lines 138-142, 168: the request ended, with a response (ok) or with a
\* timeout or a connection error (not ok); check_proxy returns
\* Ok(resp.is_ok()) and process_proxy goes on to the lock or returns.
ProbeDone(t, ok) ==
    /\ Running
    /\ pc[t] = "probing"
    /\ LET outcome == IF ok THEN "true" ELSE "false"
       IN  /\ probe' = [probe EXCEPT ![t] = outcome]
           /\ IF ShouldRecord(outcome)
              THEN /\ pc' = PcAfterProbe(t, "locking")
                   /\ UNCHANGED result
              ELSE /\ pc' = PcAfterProbe(t, AfterFailedProbe)
                   /\ result' = [result EXCEPT ![t] = "Ok"]
    /\ UNCHANGED <<cfgVars, disk, mainVars, holder, nProbe, nSent, nRecord>>

\* Lines 169-171: the lock is granted.
Acquire(t) ==
    /\ Running
    /\ pc[t] = "locking"
    /\ LockFree
    /\ holder' = t
    /\ pc' = [pc EXCEPT ![t] = "writing"]
    /\ UNCHANGED <<cfgVars, disk, mainVars, probe, result, nProbe, nSent, nRecord>>

\* Lines 172-176: write_all appended the record; the guard is dropped at
\* the end of the statement and process_proxy returns Ok(()).
WriteOk(t) ==
    /\ Running
    /\ pc[t] = "writing"
    /\ disk' = disk \o Record(proxies[t])
    /\ holder' = 0
    /\ pc' = [pc EXCEPT ![t] = "done"]
    /\ result' = [result EXCEPT ![t] = "Ok"]
    /\ nRecord' = [nRecord EXCEPT ![t] = @ + 1]
    /\ UNCHANGED <<cfgVars, mainVars, probe, nProbe, nSent>>

\* Lines 172-173: write_all failed; `?` drops the guard and returns the
\* Io error.
WriteFail(t) ==
    /\ Running
    /\ pc[t] = "writing"
    /\ holder' = 0
    /\ pc' = [pc EXCEPT ![t] = "done"]
    /\ result' = [result EXCEPT ![t] = "ErrIo"]
    /\ nRecord' = [nRecord EXCEPT ![t] = @ + 1]
    /\ mainpc' = MainAfterTaskError
    /\ UNCHANGED <<cfgVars, disk, mainRest, probe, nProbe, nSent>>

(* --------------------------- specification ---------------------------- *)

Next ==
    \/ ParseConfig
    \/ LoadOk
    \/ LoadFail
    \/ CreateOk
    \/ CreateFail
    \/ Spawn
    \/ InterLaunchSleep
    \/ DrainAndExit
    \/ \E t \in Tasks : StartProbe(t)
    \/ \E t \in Tasks, ok \in BOOLEAN : ProbeDone(t, ok)
    \/ \E t \in Tasks : Acquire(t)
    \/ \E t \in Tasks : WriteOk(t)
    \/ \E t \in Tasks : WriteFail(t)

Spec == Init /\ [][Next]_vars

SpecCadence == InitCadence /\ [][Next]_vars

SpecConfig == InitConfig /\ [][Next]_vars

(* ---------------------------- vocabulary ------------------------------ *)

\* The output file was created by this run.
Created == mainpc \in {"spawn", "sleep", "drain", "exited"}

Launched(t) == pc[t] # "none"

\* Task t appended its record.
Recorded(t) == nRecord[t] = 1 /\ result[t] = "Ok"

\* The tasks that are between their spawn and their return.
InFlight == {t \in Tasks : pc[t] \in {"spawned", "probing", "locking", "writing"}}

\* The lines of the output file.
Out == Lines(disk)

(* -------------------------------- C1 ---------------------------------- *)

\* C1 (as claimed): when the process has exited, every address with a probe
\* that succeeded (and whose write did not fail) is exactly one line of the
\* output.
C1_SuccessRecordedOnce ==
    mainpc = "exited" =>
        \A t \in Tasks :
            (probe[t] = "true" /\ result[t] # "ErrIo") =>
                /\ Terminated(disk)
                /\ Count(Out, proxies[t]) = 1

(* -------------------------------- C2 ---------------------------------- *)

\* C2: a task whose probe failed (Ok(false)) or whose address was rejected
\* (Err) never reaches the lock or the write, and every line of the output
\* is the address of a task whose probe returned Ok(true) and which wrote.
C2_FailedNeverRecorded ==
    /\ \A t \in Tasks :
          probe[t] \in {"false", "err"} =>
              nRecord[t] = 0 /\ pc[t] \notin {"locking", "writing"}
    /\ \A t \in Tasks :
          (nRecord[t] > 0 \/ pc[t] \in {"locking", "writing"}) => probe[t] = "true"
    /\ Created =>
          \A i \in DOMAIN Out :
              \E t \in Tasks : proxies[t] = Out[i] /\ probe[t] = "true" /\ Recorded(t)

\* The process has exited after one probe failed, one address was rejected
\* and one probe succeeded and was recorded.
C2_Witness ==
    /\ mainpc = "exited"
    /\ \E t1, t2, t3 \in Tasks :
          /\ probe[t1] = "false" /\ pc[t1] = "done"
          /\ probe[t2] = "err" /\ pc[t2] = "done"
          /\ probe[t3] = "true" /\ Recorded(t3)
    /\ Len(Out) = 1

(* -------------------------------- C3 ---------------------------------- *)

C4_OneWriter ==
    /\ Cardinality({t \in Tasks : pc[t] = "writing"}) <= 1
    /\ \A t \in Tasks : pc[t] = "writing" <=> holder = t

\* A step that appends to the output is a step of the holder of the lock:
\* it appends the holder's whole record and releases the lock.
C4_AppendByHolder ==
    (Created /\ disk' # disk) =>
        /\ holder \in Tasks
        /\ pc[holder] = "writing"
        /\ disk' = disk \o Record(proxies[holder])
        /\ holder' = 0

\* C4: at most one task holds the lock and is at its write, and the output
\* grows only by a step of that task, from acquisition to the end of its
\* write.
C4_MutualExclusion == []C4_OneWriter /\ [][C4_AppendByHolder]_vars

\* One task holds the lock while two others wait for it.
C4_Witness ==
    \E t1, t2, t3 \in Tasks :
        /\ holder = t1
        /\ pc[t2] = "locking"
        /\ pc[t3] = "locking"
        /\ t2 # t3

(* -------------------------------- C5 ---------------------------------- *)

\* C5: the tasks are launched in the order of the input: the k-th launch is
\* the task of the k-th address, so a launched task has every earlier
\* address's task launched before it, at a clock no later than its own.
C5_LaunchInInputOrder ==
    /\ \A k \in DOMAIN launchOrder : launchOrder[k] = k
    /\ \A i, j \in Tasks :
          (i < j /\ Launched(j)) => (Launched(i) /\ launchT[i] <= launchT[j])
    /\ \A t \in Tasks : Launched(t) <=> t \in Range(launchOrder)

\* The record order is not the launch order: three tasks have recorded, and
\* the first line of the output is the address launched last, the last line
\* the address launched first.
C5_Witness ==
    /\ Len(launchOrder) = 3
    /\ \A t \in Tasks : Recorded(t)
    /\ Len(Out) = 3
    /\ Out[1] = proxies[3]
    /\ Out[3] = proxies[1]
    /\ proxies[1] # proxies[3]

(* -------------------------------- C6 ---------------------------------- *)

\* C6 (as claimed): consecutive launches are at least 1000/cps milliseconds
\* apart, that is, cps times the gap is at least 1000.
C6_LaunchGap ==
    \A n \in Tasks :
        (n + 1 \in Tasks /\ Launched(n + 1)) =>
            cps * (launchT[n + 1] - launchT[n]) >= MillisPerSecond

(* -------------------------------- C7 ---------------------------------- *)

\* C7 (as claimed): no window of 1000 milliseconds holds more than cps
\* launches, that is, the launch cps places after a launch is at least 1000
\* milliseconds after it.
C7_AtMostCpsPerSecond ==
    \A n \in Tasks :
        (n + cps \in Tasks /\ Launched(n + cps)) =>
            launchT[n + cps] - launchT[n] >= MillisPerSecond

(* -------------------------------- C8 ---------------------------------- *)

\* C8: whatever the earlier tasks are doing, the dispatcher at a launch can
\* launch and the dispatcher at its sleep can end it.
C8_DispatcherNeverWaitsForTasks ==
    /\ mainpc = "spawn" => ENABLED Spawn
    /\ mainpc = "sleep" => ENABLED InterLaunchSleep

\* The last of three tasks has just been launched and no earlier task has
\* completed its probe.
C8_Witness ==
    /\ launchOrder = <<1, 2, 3>>
    /\ mainpc = "sleep"
    /\ pc[3] = "spawned"
    /\ pc[1] = "probing"
    /\ pc[2] \in {"spawned", "probing"}
    /\ InFlight = Tasks

(* -------------------------------- C9 ---------------------------------- *)

\* C9: no task is launched twice, every address has its task once the loop
\* has ended, a task calls check_proxy once (never before its launch, and
\* exactly once when it is past its first poll) and write_all at most once
\* (exactly once when it returned from the write).
C9_OneTaskOneProbeOneRecord ==
    /\ \A i, j \in DOMAIN launchOrder : launchOrder[i] = launchOrder[j] => i = j
    /\ Len(launchOrder) <= Len(proxies)
    /\ mainpc \in {"drain", "exited"} => Len(launchOrder) = Len(proxies)
    /\ \A t \in Tasks :
          /\ nProbe[t] <= 1
          /\ nRecord[t] <= 1
          /\ pc[t] \in {"none", "spawned"} => nProbe[t] = 0 /\ nRecord[t] = 0
          /\ pc[t] \in {"probing", "locking", "writing", "done"} => nProbe[t] = 1
          /\ pc[t] \in {"probing", "locking", "writing"} => nRecord[t] = 0
    /\ Created => Len(Out) <= Len(proxies)

\* A run of three addresses has ended: one probe failed, one write failed
\* and one record was written, and none was tried again.
C9_Witness ==
    /\ mainpc = "exited"
    /\ Len(proxies) = 3
    /\ \A t \in Tasks : pc[t] = "done"
    /\ \E t1, t2, t3 \in Tasks :
          /\ probe[t1] = "false"
          /\ result[t2] = "ErrIo"
          /\ Recorded(t3)

(* -------------------------------- C10 --------------------------------- *)

\* C10 (as claimed): the process exits timeout * 1.1 seconds, that is
\* timeout * 1100 milliseconds, after the final sleep began.
C10_DrainIsTimeoutTimes11Tenths ==
    mainpc = "exited" => 10 * (now - drainT) = 11 * MillisPerSecond * timeout

(* -------------------------------- C11 --------------------------------- *)

\* C11: the final wait reads no task state: main at its final sleep can
\* always end it and exit, and once the process has exited nothing moves
\* any more, so a task left in flight stays where it was.
C11_ExitIsAFixedSleep ==
    /\ [](mainpc = "drain" => ENABLED DrainAndExit)
    /\ [][mainpc # "exited"]_vars

\* The process has exited while a launched task whose probe succeeded has
\* not written: its address is no line of the output and neither the task
\* nor main has returned an error.
C11_Witness ==
    /\ mainpc = "exited"
    /\ \E t \in Tasks :
          /\ probe[t] = "true"
          /\ pc[t] \in {"locking", "writing"}
          /\ result[t] = "none"
          /\ proxies[t] \notin Range(Out)

(* -------------------------------- C12 --------------------------------- *)

\* The tasks whose write failed.
WriteFailed == {t \in Tasks : result[t] = "ErrIo"}

\* A task whose write failed has returned, holds no lock and has added no
\* line: its address is a line only as often as other tasks recorded it.
\* Main is still dispatching, in its final sleep or has returned Ok.
C12_FailedWriteLeavesNoRecord ==
    \A t \in WriteFailed :
        /\ pc[t] = "done"
        /\ probe[t] = "true"
        /\ holder # t
        /\ Count(Out, proxies[t]) =
              Cardinality({u \in Tasks \ {t} : Recorded(u) /\ proxies[u] = proxies[t]})
        /\ mainpc \in {"spawn", "sleep", "drain", "exited"}

\* With a failed write behind it, the run goes on: every sibling can take
\* its next step (the lock is free for a waiting sibling unless another
\* sibling is at its write) and main can launch, sleep and exit.
C12_SiblingsGoOn ==
    (WriteFailed # {} /\ Running) =>
        /\ \A u \in Tasks :
              /\ pc[u] = "spawned" => ENABLED StartProbe(u)
              /\ pc[u] = "probing" => ENABLED ProbeDone(u, TRUE)
              /\ pc[u] = "locking" =>
                    \/ ENABLED Acquire(u)
                    \/ \E w \in Tasks \ WriteFailed : pc[w] = "writing" /\ ENABLED WriteOk(w)
              /\ pc[u] = "writing" => ENABLED WriteOk(u)
        /\ mainpc = "spawn" => ENABLED Spawn
        /\ mainpc = "sleep" => ENABLED InterLaunchSleep
        /\ mainpc = "drain" => ENABLED DrainAndExit

\* The step in which a write fails changes the failing task and the lock
\* only: the output, main and every sibling are as before.
C12_FailureTouchesOneTask ==
    \A t \in Tasks :
        (result[t] # "ErrIo" /\ result'[t] = "ErrIo") =>
            /\ disk' = disk
            /\ mainpc' = mainpc
            /\ holder = t /\ holder' = 0
            /\ \A u \in Tasks \ {t} :
                  /\ pc'[u] = pc[u]
                  /\ probe'[u] = probe[u]
                  /\ result'[u] = result[u]

\* C12: a failed sink write ends its task with an error and without a
\* record, leaves every sibling to probe and record, and leaves main to
\* return normally.
C12_WriteFailureIsLocal ==
    /\ [](C12_FailedWriteLeavesNoRecord /\ C12_SiblingsGoOn)
    /\ [][C12_FailureTouchesOneTask]_vars

\* The process has exited after one task's write failed; the address of
\* that task is no line of the output and its two siblings are recorded.
C12_Witness ==
    /\ mainpc = "exited"
    /\ \E t \in WriteFailed :
          /\ proxies[t] \notin Range(Out)
          /\ \A u \in Tasks \ {t} : Recorded(u)
          /\ Cardinality(Tasks) = 3

(* -------------------------------- C13 --------------------------------- *)

\* The tasks that returned the client layer's error.
Rejected == {t \in Tasks : result[t] = "ErrReqwest"}

\* C13: the task of a malformed address sends no request and records
\* nothing; once polled it has returned Err(Reqwest) from check_proxy
\* through process_proxy, which is not the Ok(false) of an unreachable
\* proxy (that one has sent its request and returns Ok).  No malformed
\* address is a line of the output, and with such an error behind it main
\* is still dispatching, sleeping or has returned Ok, and can launch the
\* next task.
C13_MalformedIsAnErrorNotAFailure ==
    /\ \A t \in Tasks :
          (Launched(t) /\ Malformed(proxies[t])) =>
              /\ pc[t] \in {"spawned", "done"}
              /\ nSent[t] = 0
              /\ nRecord[t] = 0
              /\ pc[t] = "done" =>
                    probe[t] = "err" /\ result[t] = "ErrReqwest" /\ nProbe[t] = 1
    /\ \A t \in Tasks :
          probe[t] = "false" =>
              nSent[t] = 1 /\ result[t] = "Ok" /\ ~ Malformed(proxies[t])
    /\ \A t \in Rejected : Malformed(proxies[t]) /\ probe[t] = "err"
    /\ Created => \A i \in DOMAIN Out : ~ Malformed(Out[i])
    /\ Rejected # {} =>
          /\ mainpc \in {"spawn", "sleep", "drain", "exited"}
          /\ mainpc = "spawn" => ENABLED Spawn
          /\ mainpc = "sleep" => ENABLED InterLaunchSleep

\* The first address was rejected before the second task was launched;
\* main is at the launch of the second task.
C13_Witness ==
    /\ Len(proxies) = 3
    /\ 1 \in Rejected
    /\ nSent[1] = 0
    /\ mainpc = "spawn"
    /\ idx = 2
    /\ pc[2] = "none"

(* -------------------------------- C14 --------------------------------- *)

\* Main has not reached the dispatch loop, or has left before it.
BeforeDispatch == mainpc \in {"parse", "load", "create", "panicked", "aborted"}

\* C14: a task is launched or polled only after the configuration was
\* parsed (cps is not 0 and the delay is set from it), the input was read
\* (proxies is the input) and the output file was created, which left it
\* empty at the first launch; before that, and in a run that aborted at
\* one of these steps, no task was launched and no probe was made.
C14_NoProbeBeforeStartup ==
    /\ \A t \in Tasks : (Launched(t) \/ nProbe[t] > 0 \/ nSent[t] > 0) => Created
    /\ Created =>
          /\ cps > 0
          /\ delay * cps <= MillisPerSecond
          /\ MillisPerSecond < (delay + 1) * cps
          /\ proxies = input
    /\ (Created /\ launchOrder = << >>) => disk = << >>
    /\ BeforeDispatch =>
          /\ launchOrder = << >>
          /\ \A t \in Tasks :
                pc[t] = "none" /\ nProbe[t] = 0 /\ nSent[t] = 0 /\ nRecord[t] = 0
    /\ mainpc = "panicked" => cps = 0
    /\ mainpc = "aborted" => disk \in OldContents

\* The input of three lines was read and creating the output file failed:
\* the run has aborted with the old file in place and no task launched.
C14_Witness ==
    /\ mainpc = "aborted"
    /\ Len(proxies) = 3
    /\ disk # << >>
    /\ \A t \in Tasks : pc[t] = "none" /\ nProbe[t] = 0

(* -------------------------------- C15 --------------------------------- *)

\* C15: with an empty input no task is ever launched; once the output file
\* is created it is empty and stays empty, main is past the loop at once,
\* can end its final sleep, and never ends in an error.
C15_EmptyInput ==
    Len(input) = 0 =>
        /\ launchOrder = << >>
        /\ mainpc \notin {"spawn", "sleep"}
        /\ Created => disk = << >> /\ proxies = << >>
        /\ mainpc = "drain" => ENABLED DrainAndExit
        /\ mainpc = "exited" => now = DrainMillis

\* A run on an empty input has exited: the output file is empty and only
\* the final sleep has passed.
C15_Witness ==
    /\ input = << >>
    /\ mainpc = "exited"
    /\ disk = << >>
    /\ launchOrder = << >>
    /\ drainT = 0

(* -------------------------------- C16 --------------------------------- *)

\* Task t's probe ends without success in this step: the request failed or
\* timed out, or the address was rejected.
ProbeFails(t) == probe[t] = "none" /\ probe'[t] \in {"false", "err"}

\* Everything of task u is left as it was by this step.
TaskUntouched(u) ==
    /\ pc'[u] = pc[u]
    /\ probe'[u] = probe[u]
    /\ result'[u] = result[u]
    /\ nProbe'[u] = nProbe[u]
    /\ nSent'[u] = nSent[u]
    /\ nRecord'[u] = nRecord[u]

C16_FailureLeavesOthersAlone ==
    \A t \in Tasks :
        ProbeFails(t) =>
            /\ \A u \in Tasks \ {t} : TaskUntouched(u)
            /\ UNCHANGED <<holder, disk, mainpc>>

\* While the process runs, a probe in flight can still end either way,
\* whatever happened to the other probes.
C16_OthersStillProbe ==
    Running =>
        \A u \in Tasks :
            pc[u] = "probing" =>
                ENABLED ProbeDone(u, TRUE) /\ ENABLED ProbeDone(u, FALSE)

\* A finished task attempted a record exactly when its own probe succeeded.
C16_RecordsByOwnOutcome ==
    \A u \in Tasks :
        /\ pc[u] = "done" => (nRecord[u] = 1 <=> probe[u] = "true")
        /\ nRecord[u] = 1 => probe[u] = "true"
        /\ pc[u] \in {"locking", "writing"} => probe[u] = "true"

\* C16: no cross-task cancellation. A probe that fails or times out changes
\* only its own task; every other probe in flight can still end with its own
\* outcome, and a task records if and only if its own probe succeeded.
C16_NoCrossTaskCancellation ==
    /\ [](C16_OthersStillProbe /\ C16_RecordsByOwnOutcome)
    /\ [][C16_FailureLeavesOthersAlone]_vars

\* The first probe failed while the two others were in flight; both went on
\* to succeed and to be recorded.
C16_Witness ==
    /\ Len(proxies) = 3
    /\ launchOrder = <<1, 2, 3>>
    /\ probe[1] = "false" /\ nRecord[1] = 0 /\ pc[1] = "done"
    /\ Recorded(2) /\ Recorded(3)
    /\ Len(Out) = 2

(* -------------------------------- C17 --------------------------------- *)

\* The stub target of the claim: the probe of address "a" always succeeds,
\* the probe of address "bc" always fails, and no write fails.
StubProber ==
    /\ Range(input) \subseteq {<<"a">>, <<"b", "c">>}
    /\ <<"a">> \in Range(input)
    /\ \A t \in Tasks :
        /\ probe[t] = "true" => input[t] = <<"a">>
        /\ probe[t] = "false" => input[t] = <<"b", "c">>
        /\ result[t] # "ErrIo"

\* C17: a run against the stub target ends with an output whose set of
\* lines is exactly {"a"}, whatever the file held before the run (the
\* records of an earlier run included) and whatever the interleaving.
C17_RunIsIdempotent ==
    (mainpc = "exited" /\ StubProber) => Range(Out) = {<<"a">>}

(* -------------------------------- C18 --------------------------------- *)

\* The lock is held only by a task that is between its acquisition and the
\* end of its write.
C18_HeldOnlyWhileWriting ==
    /\ holder # 0 => holder \in Tasks /\ pc[holder] = "writing"
    /\ \A t \in Tasks : pc[t] = "done" => holder # t

\* C18: the lock is never held by a finished task, and no task that started
\* waiting for the lock is left waiting when the process is over (a task
\* still waiting then never acquires it).
C18_LockReleasedAndWaitersServed ==
    /\ C18_HeldOnlyWhileWriting
    /\ mainpc = "exited" => \A t \in Tasks : pc[t] # "locking"

(* -------------------------------- C19 --------------------------------- *)

\* The configuration was accepted: `1000 / cps` did not panic.
Configured == mainpc \notin {"parse", "panicked"}

\* C19: the final sleep, the whole seconds of the f32 product
\* timeout * 1.1, is never shorter than the request timeout; so at exit
\* every launched task was launched at least one timeout earlier, and a
\* probe that started at its launch has had its response or its timeout.
C19_DrainCoversTimeout ==
    /\ DrainSecs(timeout) >= timeout
    /\ DrainMillis >= timeout * MillisPerSecond
    /\ mainpc = "exited" =>
        /\ now - drainT = DrainMillis
        /\ \A t \in Tasks :
            Launched(t) => now - launchT[t] >= timeout * MillisPerSecond

\* The tightest case: with the default timeout and no launch delay the
\* process exits exactly one timeout after a launch, the probe of that task
\* still in flight in the model's untimed interleaving.
C19_Witness ==
    /\ mainpc = "exited"
    /\ timeout = DefaultTimeout
    /\ delay = 0
    /\ \E t \in Tasks :
        /\ pc[t] = "probing"
        /\ now - launchT[t] = timeout * MillisPerSecond

(* -------------------------------- C20 --------------------------------- *)

\* The delay is the integer quotient of 1000 by cps.
DelayIsFloor ==
    /\ cps >= 1
    /\ delay * cps <= MillisPerSecond
    /\ MillisPerSecond < (delay + 1) * cps
    /\ cps = DefaultCps => delay = 33

\* The dispatcher sleeps that delay between consecutive launches.
DelayIsUsed ==
    \A n \in Tasks :
        (n + 1 \in Tasks /\ Launched(n + 1)) =>
            launchT[n + 1] - launchT[n] = delay

====
